---- MODULE Spec2Model ----
(***************************************************************************)
(* Execution core of graphql-go (internal/exec/exec.go, graphql.go):       *)
(* Request.Execute, execSelections, collectFieldsToResolve,                *)
(* execFieldSelection, execSelectionSet and execList, run on one of two    *)
(* operations against the schema                                           *)
(*                                                                         *)
(*   type Query { a: A  s: E  b: [B] }     (the same fields on Mutation)   *)
(*   type A { c: Int }   type B { e: Int }   enum E { E }                  *)
(*                                                                         *)
(*   "object":  { a { c  ... on A { d: __typename }  c }  ... on Z { z }  s } *)
(*   "list":    { b { e  ... on Z { z } } }                                *)
(*   "lists":   { b { e }  l { e } }           (l: [B], like b)            *)
(*                                                                         *)
(* with the non-null wrappers and the Async marks of the fields drawn from *)
(* small sets.  Every node of the response tree is named by its path       *)
(* (aliases and list indices, root first) and carries the position of the  *)
(* code that computes it, its output buffer and what its resolver yielded. *)
(***************************************************************************)
EXTENDS Integers, Sequences, FiniteSets, TLC

\* Longest list a resolver returns.
MaxListLen == 2
\* Largest Limiter capacity (MaxParallelism option) a schema is built with.
MaxCap == 2

(***************************************************************************)
(* The operation: the flat selection lists selected.ApplyOperation yields. *)
(***************************************************************************)
SchemaField(alias, sels) ==
  [kind |-> "SchemaField", alias |-> alias, sels |-> sels, typ |-> "", matches |-> TRUE]
TypenameField(alias) ==
  [kind |-> "TypenameField", alias |-> alias, sels |-> <<>>, typ |-> "", matches |-> TRUE]
\* A type assertion to typ; matches is what the resolver's method for it answers.
TypeAssertion(typ, matches, sels) ==
  [kind |-> "TypeAssertion", alias |-> "", sels |-> sels, typ |-> typ, matches |-> matches]

OpNames == {"object", "list", "lists"}
OpSels(name) ==
  IF name = "object"
  THEN << SchemaField("a", << SchemaField("c", <<>>),
                              TypeAssertion("A", TRUE, << TypenameField("d") >>),
                              SchemaField("c", <<>>) >>),
          TypeAssertion("Z", FALSE, << SchemaField("z", <<>>) >>),
          SchemaField("s", <<>>) >>
  ELSE IF name = "list"
  THEN << SchemaField("b", << SchemaField("e", <<>>),
                              TypeAssertion("Z", FALSE, << SchemaField("z", <<>>) >>) >>) >>
  ELSE << SchemaField("b", << SchemaField("e", <<>>) >>),
          SchemaField("l", << SchemaField("e", <<>>) >>) >>

\* The schema: the kind of each field's type, non-null wrappers aside.
TypeKind(alias) ==
  CASE alias = "a" -> "object"
    [] alias = "b" -> "list"
    [] alias = "l" -> "list"
    [] alias = "c" -> "scalar"
    [] alias = "d" -> "scalar"
    [] alias = "s" -> "enum"
    [] alias = "e" -> "scalar"
    [] OTHER -> "scalar"

\* The Async marks and non-null wrappers the schema is checked with, per
\* operation; "b.of" is the element type of the list b.  __typename (d) is
\* always String!.  A list whose elements run in goroutines is checked with
\* no wrapper and with every wrapper.
AsyncChoices(name) ==
  CASE name = "object" -> {{}, {"a"}, {"c"}}
    [] name = "list" -> {{}, {"b"}, {"e"}}
    [] OTHER -> {{"e"}}
NonNullChoices(name, async) ==
  IF name = "object"
  THEN {{}, {"c"}, {"a", "c"}, {"s"}}
  ELSE IF name = "lists" THEN {{}}
  ELSE IF "e" \in async
       THEN {{}, {"b", "b.of", "e"}}
       ELSE {{}, {"e"}, {"b.of"}, {"e", "b.of"}, {"b", "b.of", "e"}}
\* The object operation is run as a query and as a mutation, the list
\* operation as a query.
SeriallyChoices(name) == IF name = "object" THEN BOOLEAN ELSE {FALSE}
\* The capacities of the Limiter; the two lists are run with capacity 1, the
\* smallest that lets element goroutines of both lists run side by side, and
\* the list whose elements run in goroutines with capacities up to 2, which
\* lets two of its elements hold the Limiter at once.
CapChoices(name, async) ==
  IF name = "lists" THEN {1}
  ELSE IF "e" \in async THEN {k \in 0..MaxCap : k <= 2}
  ELSE 0..MaxCap

IndexOf(seq, alias) == CHOOSE i \in 1..Len(seq) : seq[i].alias = alias
HasAlias(seq, alias) == \E i \in 1..Len(seq) : seq[i].alias = alias

\* The resolver value the type-assertion method hands back (out[0], line 180).
Asserted(resolver, typ) == resolver \o <<"as", typ>>

\* A fieldToExec: the field's alias, its merged sels, the resolver it is bound
\* to, and whether it carries a FixedResult.
fieldToExec(sel, resolver, fixed) ==
  [alias |-> sel.alias, sels |-> sel.sels, resolver |-> resolver, fixed |-> fixed]

\* The collection with a later occurrence's sels put in place of the earlier ones.
RECURSIVE collectFieldsOverwritingSels(_, _, _)
collectFieldsOverwritingSels(sels, resolver, fields) ==
  IF sels = <<>> THEN fields
  ELSE LET sel == Head(sels)
           rest == Tail(sels)
       IN CASE sel.kind = "SchemaField" ->
                 IF HasAlias(fields, sel.alias)
                 THEN collectFieldsOverwritingSels(rest, resolver,
                        [fields EXCEPT ![IndexOf(fields, sel.alias)].sels = sel.sels])
                 ELSE collectFieldsOverwritingSels(rest, resolver,
                        Append(fields, fieldToExec(sel, resolver, FALSE)))
            [] sel.kind = "TypenameField" ->
                 IF HasAlias(fields, sel.alias)
                 THEN collectFieldsOverwritingSels(rest, resolver, fields)
                 ELSE collectFieldsOverwritingSels(rest, resolver,
                        Append(fields, fieldToExec(sel, resolver, TRUE)))
            [] OTHER ->
                 IF ~sel.matches
                 THEN collectFieldsOverwritingSels(rest, resolver, fields)
                 ELSE collectFieldsOverwritingSels(rest, resolver,
                        collectFieldsOverwritingSels(sel.sels, Asserted(resolver, sel.typ), fields))

\* collectFieldsToResolve (lines 149-190) on the selections sels of an object
\* with the given resolver, fields holding what was collected before.
RECURSIVE collectFieldsToResolve(_, _, _)
collectFieldsToResolve(sels, resolver, fields) ==
  IF sels = <<>> THEN fields
  ELSE LET sel == Head(sels)
           rest == Tail(sels)
       IN CASE sel.kind = "SchemaField" ->
                 IF HasAlias(fields, sel.alias)
                 THEN collectFieldsToResolve(rest, resolver,
                        [fields EXCEPT ![IndexOf(fields, sel.alias)].sels = @ \o sel.sels])
                 ELSE collectFieldsToResolve(rest, resolver,
                        Append(fields, fieldToExec(sel, resolver, FALSE)))
            [] sel.kind = "TypenameField" ->
                 IF HasAlias(fields, sel.alias)
                 THEN collectFieldsToResolve(rest, resolver, fields)
                 ELSE collectFieldsToResolve(rest, resolver,
                        Append(fields, fieldToExec(sel, resolver, TRUE)))
            [] OTHER ->
                 IF ~sel.matches
                 THEN collectFieldsToResolve(rest, resolver, fields)
                 ELSE collectFieldsToResolve(rest, resolver,
                        collectFieldsToResolve(sel.sels, Asserted(resolver, sel.typ), fields))

(***************************************************************************)
(* The response tree.  A node is a path: <<>> is the root object, a field  *)
(* node ends in its alias, a list element node in its index.               *)
(***************************************************************************)
Root == <<>>
Front(s) == SubSeq(s, 1, Len(s) - 1)
Last(s) == s[Len(s)]
Index(i) == ToString(i)
Indices == {Index(i) : i \in 0..(MaxListLen - 1)}

\* The kind of the value at path n, read off the schema.
RECURSIVE kindAt(_)
kindAt(n) ==
  IF n = Root THEN "object"
  ELSE IF kindAt(Front(n)) = "list" THEN "object"
  ELSE TypeKind(Last(n))

\* The selections execSelectionSet receives at path n of operation o: the
\* operation's at the root, the list field's for an element, else the sels
\* collectFieldsToResolve merged into the fieldToExec.
RECURSIVE selsAt(_, _)
selsAt(o, n) ==
  IF n = Root THEN OpSels(o)
  ELSE IF kindAt(Front(n)) = "list" THEN selsAt(o, Front(n))
  ELSE LET fs == collectFieldsToResolve(selsAt(o, Front(n)), Front(n), <<>>)
       IN fs[IndexOf(fs, Last(n))].sels

childrenAt(o, n) ==
  CASE kindAt(n) = "object" ->
         LET fs == collectFieldsToResolve(selsAt(o, n), n, <<>>)
         IN {Append(n, fs[i].alias) : i \in 1..Len(fs)}
    [] kindAt(n) = "list" -> {Append(n, x) : x \in Indices}
    [] OTHER -> {}

\* Node n of operation o and everything execSelectionSet reaches below it.
RECURSIVE subtree(_, _)
subtree(o, n) == {n} \cup UNION {subtree(o, c) : c \in childrenAt(o, n)}
NodesOf(o) == subtree(o, Root)
Nodes == UNION {NodesOf(o) : o \in OpNames}

\* The trees, tabulated once.
NodesTable == [o \in OpNames |-> NodesOf(o)]
KindTable == [n \in Nodes |-> kindAt(n)]
SelsTable == [o \in OpNames |-> [n \in NodesTable[o] |-> selsAt(o, n)]]
FieldsTable ==
  [o \in OpNames |-> [n \in NodesTable[o] |-> collectFieldsToResolve(selsAt(o, n), n, <<>>)]]
ChildrenTable == [o \in OpNames |-> [n \in NodesTable[o] |-> childrenAt(o, n)]]

KindOf(n) == KindTable[n]
isElem(n) == n # Root /\ KindOf(Front(n)) = "list"
isField(n) == n # Root /\ ~isElem(n)


VARIABLES
  op,           \* the operation Execute runs
  serially,     \* op.Type == query.Mutation (Execute's last argument to execSelections)
  asyncFields,  \* the aliases whose resolver is marked Async
  nonNull,      \* the type positions wrapped in NonNull
  cap,          \* cap(r.Limiter): the schema's maxParallelism
  cancelled,    \* ctx.Err() != nil
  limiter,      \* number of tokens in the channel r.Limiter
  pc,           \* per node: where the code computing it stands
  res,          \* per node: what its resolver (or the list's element) yielded
  out,          \* per node: its output buffer (f.out, entryouts[i], Execute's out)
  listLen,      \* per list node: resolver.Len()
  sem,          \* per list node: number of tokens in execList's channel sem
  refill,       \* per list node: the index of execList's closing loop
  errs,         \* r.Errs
  ret,          \* what Execute returned
  tree,         \* the resolver tree: what each resolver and value does, or anything
  argsSeen,     \* per field: whether f.resolve was called, and the arguments map its ctx carried
  selection,    \* the sels a call of collectFieldsToResolve is given
  collected,    \* whether that call returned, and the fields it left in *fields
  request,      \* what Schema.exec is called with, on which schema
  variables,    \* Schema.exec's variables map
  response      \* the Response Schema.exec returned

vars == <<op, serially, asyncFields, nonNull, cap, cancelled, limiter, pc, res, out,
          listLen, sem, refill, errs, ret, argsSeen, tree, selection, collected,
          request, variables, response>>
config == <<op, serially, asyncFields, nonNull, cap, tree>>
\* What Execute works on, and what the calls made on their own work on.
execution == <<config, cancelled, limiter, pc, res, out, listLen, sem, refill, errs, ret,
               argsSeen>>
collecting == <<selection, collected>>
requesting == <<request, variables, response>>
aside == <<collecting, requesting>>

SelsOf(n) == SelsTable[op][n]
\* The fields execSelections collects for an object node (line 105).
FieldsOf(n) == FieldsTable[op][n]
ChildrenOf(n) == ChildrenTable[op][n]
OpNodes == NodesTable[op]

Finished == {"done", "aborted", "panicked"}

\* What a resolver can do: return a value, return nil, return an error, panic.
ResolverOutcomes == {"value", "nil", "error", "panic"}
\* What a node can do in all: besides the resolver's outcomes, a value that
\* json.Marshal turns into null or rejects, an enum value the type does not
\* have, an object whose type-assertion method panics; the selections of the
\* root can be invalid.
Does == ResolverOutcomes \cup {"jsonnull", "unmarshallable", "invalid", "uncollected"}

\* A tree whose resolvers may do anything at each call.
AnyTree ==
  [pure |-> FALSE, does |-> [n \in Nodes |-> "value"], len |-> [n \in Nodes |-> 0]]

\* The tree of pure resolvers in which node n does d, every other node yields
\* a value and every list has len elements.
PureTree(n, d, len) ==
  [pure |-> TRUE,
   does |-> [m \in Nodes |-> IF m = n THEN d ELSE "value"],
   len |-> [m \in Nodes |-> len]]

\* The deviations the pure trees of an operation are built from.
Deviations(name) ==
  IF name = "object"
  THEN {<<Root, "value">>, <<Root, "invalid">>, <<Root, "uncollected">>,
        <<<<"a">>, "nil">>, <<<<"a">>, "uncollected">>,
        <<<<"a", "c">>, "error">>, <<<<"a", "c">>, "panic">>,
        <<<<"a", "c">>, "jsonnull">>, <<<<"a", "c">>, "unmarshallable">>,
        <<<<"s">>, "invalid">>}
  ELSE IF name = "list"
  THEN {<<Root, "value">>, <<<<"b">>, "error">>,
        <<<<"b", "0">>, "nil">>, <<<<"b", "1">>, "uncollected">>,
        <<<<"b", "0", "e">>, "unmarshallable">>, <<<<"b", "1", "e">>, "jsonnull">>}
  ELSE {<<Root, "value">>, <<<<"l", "0", "e">>, "error">>}

PureTrees(name) ==
  {PureTree(x[1], x[2], l) : x \in Deviations(name), l \in {MaxListLen}}

\* The resolver tree lets node n do d.
Permits(n, d) == ~tree.pure \/ tree.does[n] = d
\* The resolver of n (the Index call, for an element) may hand back o.
Yields(n, o) ==
  ~tree.pure \/ o = (IF tree.does[n] \in ResolverOutcomes THEN tree.does[n] ELSE "value")
\* The lengths resolver.Len() may report for list n.
Lens(n) == IF tree.pure THEN {tree.len[n]} ELSE 0..MaxListLen

\* selected.HasAsyncSel: some field of the list, type assertions looked through,
\* is marked asynchronous, or some selection nested in one is.
RECURSIVE HasAsyncSel(_)
HasAsyncSel(sels) ==
  \E i \in 1..Len(sels) :
     \/ sels[i].kind = "SchemaField"
          /\ (sels[i].alias \in asyncFields \/ HasAsyncSel(sels[i].sels))
     \/ sels[i].kind = "TypeAssertion" /\ HasAsyncSel(sels[i].sels)

\* execSelections with "serially" left out of the decision.
AsyncObjectIgnoringSerially(n) == HasAsyncSel(SelsOf(n))
\* execSelections' "async" for the object node n (line 102); only Execute
\* passes serially, execSelectionSet passes false.
AsyncObject(n) == ~(n = Root /\ serially) /\ HasAsyncSel(SelsOf(n))
\* execList's branch for the list node n (line 359).
AsyncList(n) == HasAsyncSel(SelsOf(n))

\* Node n is the body of a goroutine of its own (or of Execute's caller).
OwnGoroutine(n) ==
  \/ n = Root
  \/ isField(n) /\ AsyncObject(Front(n))
  \/ isElem(n) /\ AsyncList(Front(n))

RECURSIVE GoroutineOf(_)
GoroutineOf(n) == IF OwnGoroutine(n) THEN n ELSE GoroutineOf(Front(n))

IsPrefix(s, t) == Len(s) <= Len(t) /\ SubSeq(t, 1, Len(s)) = s
\* The frames a panic raised in n unwinds: n up to the goroutine's deferred handlePanic.
Unwound(n) == {m \in OpNodes : IsPrefix(m, n) /\ IsPrefix(GoroutineOf(n), m)}

isFixed(n) ==
  isField(n) /\ FieldsOf(Front(n))[IndexOf(FieldsOf(Front(n)), Last(n))].fixed

ElemPosition(alias) == CASE alias = "b" -> "b.of" [] OTHER -> "none"
\* The node's declared type is NonNull.
isNonNull(n) ==
  IF n = Root THEN FALSE
  ELSE IF isElem(n) THEN ElemPosition(Last(Front(n))) \in nonNull
  ELSE isFixed(n) \/ Last(n) \in nonNull

IndexNum(x) == CHOOSE i \in 0..(MaxListLen - 1) : Index(i) = x

\* f.field.Args: the names of the arguments the operation gives the field
\* (a(x: 1), c(y: 2), b(n: 3)); the other fields take none.
FieldArgs(alias) ==
  CASE alias = "a" -> {"x"}
    [] alias = "c" -> {"y"}
    [] alias = "b" -> {"n"}
    [] OTHER -> {}
\* A context with no value under argumentsKey.
NoArgs == {}

\* The arguments map carried by the ctx that execFieldSelection is handed for
\* field n, or that execSelectionSet is handed for element n: Execute's own
\* context at the root, below it the traceCtx of the enclosing field (line 282).
RECURSIVE ContextArgs(_)
ContextArgs(n) ==
  IF n = Root \/ Front(n) = Root THEN NoArgs
  ELSE LET p == Front(n)
       IN IF isField(p) /\ FieldArgs(Last(p)) # {} THEN FieldArgs(Last(p))
          ELSE ContextArgs(p)

\* The arguments map carried by field n's traceCtx after lines 251-253.
TraceArgs(n) == IF FieldArgs(Last(n)) # {} THEN FieldArgs(Last(n)) ELSE ContextArgs(n)

(***************************************************************************)
(* Errors and paths.                                                       *)
(***************************************************************************)
\* The segments from the field up to the root.
RECURSIVE toSliceLeafFirst(_)
toSliceLeafFirst(p) == IF p = <<>> THEN <<>> ELSE <<p[Len(p)]>> \o toSliceLeafFirst(SubSeq(p, 1, Len(p) - 1))

\* pathSegment.toSlice on the segment built for node p: parent first.
RECURSIVE toSlice(_)
toSlice(p) == IF p = Root THEN <<>> ELSE Append(toSlice(Front(p)), Last(p))

NoPath == <<>>
QueryError(kind, path) == [kind |-> kind, path |-> path]
\* selected.Request.AddError: append under the request's mutex.
AddError(list, e) == Append(list, e)

(***************************************************************************)
(* Output buffers are sequences of tokens.                                 *)
(***************************************************************************)
Null == <<"null">>
resolvedToNull(b) == b = Null

\* The loop writing each field in front of the ones written before it.
RECURSIVE writeFieldsReversed(_, _, _)
writeFieldsReversed(n, i, acc) ==
  LET fs == FieldsOf(n)
  IN IF i > Len(fs) THEN <<"{">> \o acc \o <<"}">>
     ELSE LET f == Append(n, fs[i].alias)
          IN IF isNonNull(f) /\ resolvedToNull(out[f])
             THEN Null
             ELSE writeFieldsReversed(n, i + 1,
                    <<fs[i].alias, ":">> \o out[f] \o
                    (IF i > 1 THEN <<",">> \o Tail(acc) ELSE <<>>))

\* execSelections, lines 127-146: the loop over fields from index i with the
\* parent's buffer holding acc.
RECURSIVE writeFields(_, _, _)
writeFields(n, i, acc) ==
  LET fs == FieldsOf(n)
  IN IF i > Len(fs) THEN Append(acc, "}")
     ELSE LET f == Append(n, fs[i].alias)
          IN IF isNonNull(f) /\ resolvedToNull(out[f])
             THEN Null
             ELSE writeFields(n, i + 1,
                    (IF i > 1 THEN Append(acc, ",") ELSE acc) \o <<fs[i].alias, ":">> \o out[f])

\* The loop over entryouts without the check of lines 386-390.
RECURSIVE writeEntriesKeepingNull(_, _, _)
writeEntriesKeepingNull(n, i, acc) ==
  IF i >= listLen[n] THEN Append(acc, "]")
  ELSE writeEntriesKeepingNull(n, i + 1,
         (IF i > 0 THEN Append(acc, ",") ELSE acc) \o out[Append(n, Index(i))])

\* execList, lines 384-398: the loop over entryouts from index i.
RECURSIVE writeEntries(_, _, _)
writeEntries(n, i, acc) ==
  IF i >= listLen[n] THEN Append(acc, "]")
  ELSE LET e == Append(n, Index(i))
       IN IF isNonNull(e) /\ resolvedToNull(out[e])
          THEN Null
          ELSE writeEntries(n, i + 1, (IF i > 0 THEN Append(acc, ",") ELSE acc) \o out[e])

(***************************************************************************)
(* Control: which node runs next in a sequential frame.                    *)
(***************************************************************************)
\* The node the caller of n calls when n returns: the next field of a
\* sequential execSelections loop (line 120), the next element of a sequential
\* execList loop (line 376).
NextInLoop(n) ==
  IF n = Root \/ OwnGoroutine(n) THEN {}
  ELSE IF isField(n)
       THEN LET fs == FieldsOf(Front(n))
                i == IndexOf(fs, Last(n))
            IN IF i < Len(fs) THEN {Append(Front(n), fs[i + 1].alias)} ELSE {}
       ELSE IF IndexNum(Last(n)) + 1 < listLen[Front(n)]
            THEN {Append(Front(n), Index(IndexNum(Last(n)) + 1))}
            ELSE {}

\* A called field starts at the Limiter, a called element in execSelectionSet.
EntryPc(m) == IF isField(m) THEN "limiter" ELSE "value"

\* Node n returns with position st, an element goroutine keeping its token of sem.
ReturnHoldingSem(n, st) ==
  LET next == NextInLoop(n)
  IN /\ pc' = [m \in Nodes |-> IF m = n THEN st
                               ELSE IF m \in next THEN EntryPc(m)
                               ELSE pc[m]]
     /\ sem' = sem

\* Node n returns with position st; a goroutine's deferred <-sem runs.
Return(n, st) ==
  LET next == NextInLoop(n)
  IN /\ pc' = [m \in Nodes |-> IF m = n THEN st
                               ELSE IF m \in next THEN EntryPc(m)
                               ELSE pc[m]]
     /\ sem' = IF isElem(n) /\ OwnGoroutine(n) THEN [sem EXCEPT ![Front(n)] = @ - 1] ELSE sem

\* A panic that handlePanic recovers without adding its error.
PanicWithoutError(n) ==
  LET g == GoroutineOf(n)
      frames == Unwound(n)
  IN /\ pc' = [m \in Nodes |-> IF m = n THEN "panicked"
                               ELSE IF m \in frames THEN "aborted"
                               ELSE pc[m]]
     /\ errs' = errs
     /\ sem' = IF isElem(g) THEN [sem EXCEPT ![Front(g)] = @ - 1] ELSE sem

\* A panic raised in n outside execFieldSelection's recover: the frames up to
\* the goroutine's handlePanic are abandoned, handlePanic adds its error
\* (lines 37-42) and the goroutine's deferred wg.Done / <-sem run.
Panic(n) ==
  LET g == GoroutineOf(n)
      frames == Unwound(n)
  IN /\ pc' = [m \in Nodes |-> IF m = n THEN "panicked"
                               ELSE IF m \in frames THEN "aborted"
                               ELSE pc[m]]
     /\ errs' = AddError(errs, QueryError("gopanic", NoPath))
     /\ sem' = IF isElem(g) THEN [sem EXCEPT ![Front(g)] = @ - 1] ELSE sem

(***************************************************************************)
(* Initial states: Schema.exec built the Request (lines 311-322) and calls *)
(* Execute.                                                                *)
(***************************************************************************)
\* var fields []*fieldToExec before collectFieldsToResolve is called (line 104).
NotCollected == [done |-> FALSE, fields |-> <<>>]

\* Nothing has been executed or written, Execute standing at at.
Standing(at) ==
  /\ cancelled = FALSE
  /\ limiter = 0
  /\ pc = [n \in Nodes |-> IF n = Root THEN at ELSE "idle"]
  /\ res = [n \in Nodes |-> "none"]
  /\ out = [n \in Nodes |-> <<>>]
  /\ listLen = [n \in Nodes |-> 0]
  /\ sem = [n \in Nodes |-> 0]
  /\ refill = [n \in Nodes |-> 0]
  /\ errs = <<>>
  /\ ret = [returned |-> FALSE, data |-> <<>>, nilData |-> FALSE, errs |-> <<>>]
  /\ argsSeen = [n \in Nodes |-> [called |-> FALSE, args |-> NoArgs]]

\* Execute is about to run.
Started == Standing("start")

(***************************************************************************)
(* Schema.exec (graphql.go): values, variables and the request.            *)
(***************************************************************************)
\* Go values a variables map holds: a number, or nil for a JSON null.
GoNil == [go |-> "nil", v |-> 0]
GoInt(k) == [go |-> "int", v |-> k]
\* Literals of a variable's default in the operation.
NoDefault == [lit |-> "none", text |-> ""]
NullLit == [lit |-> "Null", text |-> "null"]
IntLit(text) == [lit |-> "Int", text |-> text]
\* v.Default.Deserialize(nil) (line 307).
Deserialize(d) ==
  IF d.lit = "Null" THEN GoNil
  ELSE GoInt(CASE d.text = "1" -> 1 [] d.text = "2" -> 2 [] OTHER -> 0)

\* A variables map: a nil map, or a map from names to values.
EmptyEntries == [k \in {} |-> GoNil]
NilMap == [nil |-> TRUE, at |-> EmptyEntries]
MapOf(entries) == [nil |-> FALSE, at |-> entries]
Has(m, k) == k \in DOMAIN m.at
Put(m, k, val) ==
  [nil |-> FALSE, at |-> [j \in DOMAIN m.at \cup {k} |-> IF j = k THEN val ELSE m.at[j]]]

\* A declared variable of the operation (an element of op.Vars).
VarDef(name, default) == [name |-> name, default |-> default]

\* Lines 305-309 with a supplied null replaced by the default as well.
RECURSIVE fillDefaultsOverNull(_, _)
fillDefaultsOverNull(opVars, m) ==
  IF opVars = <<>> THEN m
  ELSE LET d == Head(opVars)
       IN IF (~Has(m, d.name) \/ m.at[d.name] = GoNil) /\ d.default # NoDefault
          THEN fillDefaultsOverNull(Tail(opVars), Put(m, d.name, Deserialize(d.default)))
          ELSE fillDefaultsOverNull(Tail(opVars), m)

\* Lines 305-309: the loop over op.Vars.
RECURSIVE fillDefaults(_, _)
fillDefaults(opVars, m) ==
  IF opVars = <<>> THEN m
  ELSE LET d == Head(opVars)
       IN IF ~Has(m, d.name) /\ d.default # NoDefault
          THEN fillDefaults(Tail(opVars), Put(m, d.name, Deserialize(d.default)))
          ELSE fillDefaults(Tail(opVars), m)

\* Lines 301-309: a nil map is replaced by an empty one, then filled.
withDefaults(opVars, m) ==
  fillDefaults(opVars, IF m.nil THEN MapOf(EmptyEntries) ELSE m)

\* getOperation (lines 380-399) on a document with the named operations.
getOperation(operations, operationName) ==
  IF operations = {} THEN "no operations in query document"
  ELSE IF operationName = "" /\ Cardinality(operations) > 1
       THEN "more than one operation in query document and no operation name given"
       ELSE IF operationName = "" \/ operationName \in operations THEN "ok"
            ELSE "no operation with name"

\* Lines 265-299 without the check for a subscription.
precheckWithoutSubscription(r) ==
  IF r.maxQueryLength > 0 /\ r.queryLen > r.maxQueryLength THEN "query length"
  ELSE IF ~r.parses THEN "parse"
  ELSE IF Len(r.validationErrs) # 0 THEN "validation"
  ELSE IF getOperation(r.operations, r.operationName) # "ok" THEN "operation"
  ELSE IF r.opType = "mutation" /\ ~r.mutationRoot THEN "no mutations"
  ELSE "ok"

\* Lines 265-299: the checks of Schema.exec in the order it makes them, giving
\* the one that rejects the request, or "ok".
precheck(r) ==
  IF r.maxQueryLength > 0 /\ r.queryLen > r.maxQueryLength THEN "query length"
  ELSE IF ~r.parses THEN "parse"
  ELSE IF Len(r.validationErrs) # 0 THEN "validation"
  ELSE IF getOperation(r.operations, r.operationName) # "ok" THEN "operation"
  ELSE IF r.opType = "subscription" THEN "subscription"
  ELSE IF r.opType = "mutation" /\ ~r.mutationRoot THEN "no mutations"
  ELSE "ok"

\* The errors of the Response a rejecting check returns.
rejection(r) ==
  IF precheck(r) = "validation" THEN r.validationErrs
  ELSE <<QueryError(precheck(r), NoPath)>>

NoRequest ==
  [queryLen |-> 0, maxQueryLength |-> 0, parses |-> TRUE, validationErrs |-> <<>>,
   operations |-> {}, operationName |-> "", opType |-> "query", mutationRoot |-> FALSE,
   opVars |-> <<>>, resolves |-> TRUE, variables |-> NilMap]
NoResponse == [returned |-> FALSE, hasData |-> FALSE, data |-> <<>>, errors |-> <<>>]

\* No call is made apart from Execute.
NotCollecting ==
  /\ selection = <<>>
  /\ collected = NotCollected
NotRequesting ==
  /\ request = NoRequest
  /\ variables = NilMap
  /\ response = NoResponse
NothingAside == NotCollecting /\ NotRequesting

\* The operation with two lists is run on pure trees only.
Init ==
  /\ op \in OpNames \ {"lists"}
  /\ serially \in SeriallyChoices(op)
  /\ asyncFields \in AsyncChoices(op)
  /\ nonNull \in NonNullChoices(op, asyncFields)
  /\ cap \in CapChoices(op, asyncFields)
  /\ tree = AnyTree
  /\ Started
  /\ NothingAside

(***************************************************************************)
(* Request.Execute                                                         *)
(***************************************************************************)
\* The nodes execSelections sets going for object node n: every field in a
\* goroutine of its own (lines 107-117), or the first field of the sequential
\* loop (lines 120-123).
Launched(n) ==
  IF AsyncObject(n) THEN ChildrenOf(n)
  ELSE IF Len(FieldsOf(n)) > 0 THEN {Append(n, FieldsOf(n)[1].alias)} ELSE {}

\* Lines 65-71: validateSelections found nothing; execSelections on the root.
ExecuteStart ==
  /\ pc[Root] = "start"
  /\ Permits(Root, "value")
  /\ LET started == Launched(Root)
     IN pc' = [m \in Nodes |-> IF m = Root THEN "children"
                               ELSE IF m \in started THEN "limiter" ELSE pc[m]]
  /\ UNCHANGED <<config, aside, argsSeen, cancelled, limiter, res, out, listLen, sem, refill, errs, ret>>

\* Lines 65-69: validateSelections reported errors.
ExecuteInvalid ==
  /\ pc[Root] = "start"
  /\ Permits(Root, "invalid")
  /\ errs' = <<QueryError("validation", NoPath)>>
  /\ res' = [res EXCEPT ![Root] = "invalid"]
  /\ out' = [out EXCEPT ![Root] = Null]
  /\ pc' = [pc EXCEPT ![Root] = "done"]
  /\ UNCHANGED <<config, aside, argsSeen, cancelled, limiter, listLen, sem, refill, ret>>

\* Execute handing back the buffer and r.Errs whatever the context says.
ExecuteResultKeepingData ==
  [returned |-> TRUE, data |-> out[Root], nilData |-> FALSE, errs |-> errs]

\* Lines 74-78: what Execute hands back.
ExecuteResult ==
  IF cancelled
  THEN [returned |-> TRUE, data |-> <<>>, nilData |-> TRUE,
        errs |-> <<QueryError("cancelled", NoPath)>>]
  ELSE [returned |-> TRUE, data |-> out[Root], nilData |-> FALSE, errs |-> errs]

ExecuteReturn ==
  /\ pc[Root] \in Finished
  /\ ret' = ExecuteResult
  /\ pc' = [pc EXCEPT ![Root] = "returned"]
  /\ UNCHANGED <<config, aside, argsSeen, cancelled, limiter, res, out, listLen, sem, refill, errs>>

\* The caller's context is cancelled (or its deadline passes) during Execute.
Cancel ==
  /\ ~cancelled
  /\ pc[Root] # "returned"
  /\ cancelled' = TRUE
  /\ UNCHANGED <<config, aside, argsSeen, limiter, pc, res, out, listLen, sem, refill, errs, ret>>

(***************************************************************************)
(* execFieldSelection                                                      *)
(***************************************************************************)
\* A send that goes through with the channel already full.
LimiterHasRoomOffByOne == limiter <= cap
\* Line 221: r.Limiter <- struct{}{} goes through when the channel has room.
LimiterHasRoom == limiter < cap

Acquire(n) ==
  /\ isField(n)
  /\ pc[n] = "limiter"
  /\ LimiterHasRoom
  /\ limiter' = limiter + 1
  /\ pc' = [pc EXCEPT ![n] = "acquired"]
  /\ UNCHANGED <<config, aside, argsSeen, cancelled, res, out, listLen, sem, refill, errs, ret>>

\* The inner function (lines 232-268) left err non-nil.
isErr(r) == r \in {"error", "panic", "cancelled"}

\* The receive of lines 270-272 skipped when the inner function recovered a panic.
ReleasedKeepingToken(n, r) ==
  /\ limiter' = IF r = "panic" THEN limiter ELSE limiter - 1
  /\ res' = [res EXCEPT ![n] = r]
  /\ pc' = [pc EXCEPT ![n] = IF isErr(r) THEN "failed" ELSE "value"]

\* Lines 270-272, <-r.Limiter, after the inner function ended with r.
Released(n, r) ==
  /\ limiter' = limiter - 1
  /\ res' = [res EXCEPT ![n] = r]
  /\ pc' = [pc EXCEPT ![n] = IF isErr(r) THEN "failed" ELSE "value"]

\* Lines 241-244: a FixedResult is the result; no resolver is called.
FixedResult(n) ==
  /\ pc[n] = "acquired"
  /\ isFixed(n)
  /\ Released(n, "value")
  /\ UNCHANGED <<config, aside, argsSeen, cancelled, out, listLen, sem, refill, errs, ret>>

\* The context looked at ahead of the FixedResult.
ContextDoneFirst(n) ==
  /\ pc[n] = "acquired"
  /\ cancelled
  /\ Released(n, "cancelled")
  /\ UNCHANGED <<config, aside, argsSeen, cancelled, out, listLen, sem, refill, errs, ret>>

\* Lines 246-248: the context is cancelled; no resolver is called.
ContextDone(n) ==
  /\ pc[n] = "acquired"
  /\ ~isFixed(n)
  /\ cancelled
  /\ Released(n, "cancelled")
  /\ UNCHANGED <<config, aside, argsSeen, cancelled, out, listLen, sem, refill, errs, ret>>

\* f.resolve called without looking at the context.
CallResolverIgnoringContext(n) ==
  /\ pc[n] = "acquired"
  /\ ~isFixed(n)
  /\ pc' = [pc EXCEPT ![n] = "running"]
  /\ argsSeen' = [argsSeen EXCEPT ![n] = [called |-> TRUE, args |-> ContextArgs(n)]]
  /\ UNCHANGED <<config, aside, cancelled, limiter, res, out, listLen, sem, refill, errs, ret>>

\* f.resolve called with the context the arguments were put into first.
CallResolverWithArgs(n) ==
  /\ pc[n] = "acquired"
  /\ ~isFixed(n)
  /\ ~cancelled
  /\ pc' = [pc EXCEPT ![n] = "running"]
  /\ argsSeen' = [argsSeen EXCEPT ![n] = [called |-> TRUE, args |-> TraceArgs(n)]]
  /\ UNCHANGED <<config, aside, cancelled, limiter, res, out, listLen, sem, refill, errs, ret>>

\* Line 250: f.resolve is called with ctx, the context execFieldSelection was
\* handed; the field's own arguments go into traceCtx afterwards (251-253).
CallResolver(n) ==
  /\ pc[n] = "acquired"
  /\ ~isFixed(n)
  /\ ~cancelled
  /\ pc' = [pc EXCEPT ![n] = "running"]
  /\ argsSeen' = [argsSeen EXCEPT ![n] = [called |-> TRUE, args |-> ContextArgs(n)]]
  /\ UNCHANGED <<config, aside, cancelled, limiter, res, out, listLen, sem, refill, errs, ret>>

\* Lines 250-268 and the deferred recover of lines 233-239: the resolver
\* returns or panics, and the inner function ends.
ResolverReturns(n) ==
  /\ pc[n] = "running"
  /\ \E o \in ResolverOutcomes : Yields(n, o) /\ Released(n, o)
  /\ UNCHANGED <<config, aside, argsSeen, cancelled, out, listLen, sem, refill, errs, ret>>

\* The inner function's error with err.Path left unset.
FieldErrorWithoutPath(n) ==
  CASE res[n] = "error" -> QueryError("resolver", NoPath)
    [] res[n] = "panic" -> QueryError("panic", NoPath)
    [] OTHER -> QueryError("cancelled", NoPath)

\* The error the inner function returned for node n.
FieldError(n) ==
  CASE res[n] = "error" -> QueryError("resolver", toSlice(n))
    [] res[n] = "panic" -> QueryError("panic", toSlice(n))
    [] OTHER -> QueryError("cancelled", NoPath)

\* Lines 274-280 with the error stored as the request's only error.
FieldFailsOverwritingErrs(n) ==
  /\ pc[n] = "failed"
  /\ errs' = <<FieldError(n)>>
  /\ out' = [out EXCEPT ![n] = @ \o Null]
  /\ Return(n, "done")
  /\ UNCHANGED <<config, aside, argsSeen, cancelled, limiter, res, listLen, refill, ret>>

\* Lines 274-280.
FieldFails(n) ==
  /\ pc[n] = "failed"
  /\ errs' = AddError(errs, FieldError(n))
  /\ out' = [out EXCEPT ![n] = @ \o Null]
  /\ Return(n, "done")
  /\ UNCHANGED <<config, aside, argsSeen, cancelled, limiter, res, listLen, refill, ret>>

(***************************************************************************)
(* execSelectionSet                                                        *)
(***************************************************************************)
\* The value execSelectionSet gets for n: a field's result, or resolver.Index(i).
Values(n) == IF isElem(n) THEN {o \in {"value", "nil"} : Yields(n, o)} ELSE {res[n]}

\* Lines 289-300: an absent value.
ValueNil(n) ==
  /\ pc[n] = "value"
  /\ "nil" \in Values(n)
  /\ res' = [res EXCEPT ![n] = "nil"]
  /\ errs' = IF isNonNull(n) THEN AddError(errs, QueryError("nonnull", toSlice(n))) ELSE errs
  /\ out' = [out EXCEPT ![n] = @ \o Null]
  /\ Return(n, "done")
  /\ UNCHANGED <<config, aside, argsSeen, cancelled, limiter, listLen, refill, ret>>

\* Some selection of the list is a type assertion, whose predicate
\* collectFieldsToResolve calls (line 180).
HasAssertion(sels) == \E i \in 1..Len(sels) : sels[i].kind = "TypeAssertion"

\* Lines 105 and 180: the type-assertion method of the resolver panics while
\* the fields of object n are collected.
CollectPanics(n) ==
  /\ IF n = Root THEN pc[n] = "start"
     ELSE pc[n] = "value" /\ KindOf(n) = "object" /\ "value" \in Values(n)
  /\ HasAssertion(SelsOf(n))
  /\ Permits(n, "uncollected")
  /\ res' = [res EXCEPT ![n] = "uncollected"]
  /\ Panic(n)
  /\ UNCHANGED <<config, aside, argsSeen, cancelled, limiter, out, listLen, refill, ret>>

\* Lines 302-306 and 101-124: an object; its fields are collected and set going.
ObjectStarts(n) ==
  /\ pc[n] = "value"
  /\ KindOf(n) = "object"
  /\ "value" \in Values(n)
  /\ Permits(n, "value")
  /\ res' = [res EXCEPT ![n] = "value"]
  /\ LET started == Launched(n)
     IN pc' = [m \in Nodes |-> IF m = n THEN "children"
                               ELSE IF m \in started THEN "limiter" ELSE pc[m]]
  /\ UNCHANGED <<config, aside, argsSeen, cancelled, limiter, out, listLen, sem, refill, errs, ret>>

\* Lines 118-146: every field has returned (wg.Wait, or the loop's end); the
\* object is written.
ObjectWritten(n) ==
  /\ pc[n] = "children"
  /\ KindOf(n) = "object"
  /\ \A f \in ChildrenOf(n) : pc[f] \in Finished
  /\ out' = [out EXCEPT ![n] = writeFields(n, 1, Append(@, "{"))]
  /\ Return(n, "done")
  /\ UNCHANGED <<config, aside, argsSeen, cancelled, limiter, res, listLen, refill, errs, ret>>

\* Lines 315-316 and 355-357: a list of l elements.
ListStarts(n) ==
  /\ pc[n] = "value"
  /\ KindOf(n) = "list"
  /\ res[n] = "value"
  /\ \E l \in Lens(n) :
       /\ listLen' = [listLen EXCEPT ![n] = l]
       /\ pc' = [m \in Nodes |-> IF m = n THEN "children"
                                 ELSE IF ~AsyncList(n) /\ l > 0 /\ m = Append(n, Index(0))
                                      THEN "value" ELSE pc[m]]
  /\ UNCHANGED <<config, aside, argsSeen, cancelled, limiter, res, out, sem, refill, errs, ret>>

\* The elements execList has not handed to a goroutine yet.
Unspawned(n) == {i \in 0..(listLen[n] - 1) : pc[Append(n, Index(i))] = "idle"}
Min(S) == CHOOSE x \in S : \A y \in S : x <= y

\* A send on sem that goes through with the channel already full.
SemHasRoomOffByOne(n) == sem[n] <= cap
\* sem <- struct{}{} goes through when the channel has room.
SemHasRoom(n) == sem[n] < cap

\* Lines 364-371: the next element gets a token and a goroutine.
SpawnElement(n) ==
  /\ pc[n] = "children"
  /\ KindOf(n) = "list"
  /\ AsyncList(n)
  /\ Unspawned(n) # {}
  /\ SemHasRoom(n)
  /\ sem' = [sem EXCEPT ![n] = @ + 1]
  /\ pc' = [pc EXCEPT ![Append(n, Index(Min(Unspawned(n))))] = "value"]
  /\ UNCHANGED <<config, aside, argsSeen, cancelled, limiter, res, out, listLen, refill, errs, ret>>

\* Lines 372-374: the closing loop fills the channel.
FillSem(n) ==
  /\ pc[n] = "children"
  /\ KindOf(n) = "list"
  /\ AsyncList(n)
  /\ Unspawned(n) = {}
  /\ refill[n] < cap
  /\ SemHasRoom(n)
  /\ sem' = [sem EXCEPT ![n] = @ + 1]
  /\ refill' = [refill EXCEPT ![n] = @ + 1]
  /\ UNCHANGED <<config, aside, argsSeen, cancelled, limiter, pc, res, out, listLen, errs, ret>>

\* execList going on to line 381 once every element has its goroutine, the
\* closing loop of lines 372-374 left out.
ElementsSpawned(n) ==
  IF AsyncList(n)
  THEN Unspawned(n) = {}
  ELSE \A i \in 0..(listLen[n] - 1) : pc[Append(n, Index(i))] \in Finished

\* execList has reached line 381.
ElementsAwaited(n) ==
  IF AsyncList(n)
  THEN Unspawned(n) = {} /\ refill[n] = cap
  ELSE \A i \in 0..(listLen[n] - 1) : pc[Append(n, Index(i))] \in Finished

\* Lines 381-398: the list is written.
ListWritten(n) ==
  /\ pc[n] = "children"
  /\ KindOf(n) = "list"
  /\ ElementsAwaited(n)
  /\ out' = [out EXCEPT ![n] = writeEntries(n, 0, Append(@, "["))]
  /\ Return(n, "done")
  /\ UNCHANGED <<config, aside, argsSeen, cancelled, limiter, res, listLen, refill, errs, ret>>

\* The token json.Marshal yields for the node's value.
Marshalled(n) == IF isFixed(n) THEN <<"T">> ELSE <<"1">>

\* Lines 318-324: a scalar is marshalled and written.
ScalarWritten(n) ==
  /\ pc[n] = "value"
  /\ KindOf(n) = "scalar"
  /\ res[n] = "value"
  /\ Permits(n, "value")
  /\ out' = [out EXCEPT ![n] = @ \o Marshalled(n)]
  /\ Return(n, "done")
  /\ UNCHANGED <<config, aside, argsSeen, cancelled, limiter, res, listLen, refill, errs, ret>>

\* Lines 318-324: json.Marshal turns a value that passed the nil test of line
\* 289 (a nil map or slice, a type whose MarshalJSON yields null) into null.
ScalarNull(n) ==
  /\ pc[n] = "value"
  /\ KindOf(n) = "scalar"
  /\ res[n] = "value"
  /\ ~isFixed(n)
  /\ Permits(n, "jsonnull")
  /\ res' = [res EXCEPT ![n] = "jsonnull"]
  /\ out' = [out EXCEPT ![n] = @ \o Null]
  /\ Return(n, "done")
  /\ UNCHANGED <<config, aside, argsSeen, cancelled, limiter, listLen, refill, errs, ret>>

\* Lines 320-323: json.Marshal fails (a NaN, a failing MarshalJSON) and
\* execSelectionSet panics.
MarshalPanics(n) ==
  /\ pc[n] = "value"
  /\ KindOf(n) = "scalar"
  /\ res[n] = "value"
  /\ ~isFixed(n)
  /\ Permits(n, "unmarshallable")
  /\ res' = [res EXCEPT ![n] = "unmarshallable"]
  /\ Panic(n)
  /\ UNCHANGED <<config, aside, argsSeen, cancelled, limiter, out, listLen, refill, ret>>

\* Lines 326-348: an enum value is checked against the type's values.
EnumWritten(n) ==
  /\ pc[n] = "value"
  /\ KindOf(n) = "enum"
  /\ res[n] = "value"
  /\ \E valid \in {b \in BOOLEAN : Permits(n, IF b THEN "value" ELSE "invalid")} :
       IF valid
       THEN /\ out' = [out EXCEPT ![n] = @ \o <<"E">>]
            /\ UNCHANGED <<errs, res>>
       ELSE /\ out' = [out EXCEPT ![n] = @ \o Null]
            /\ errs' = AddError(errs, QueryError("enum", toSlice(n)))
            /\ res' = [res EXCEPT ![n] = "invalid"]
  /\ Return(n, "done")
  /\ UNCHANGED <<config, aside, argsSeen, cancelled, limiter, listLen, refill, ret>>

Next ==
  \/ ExecuteStart
  \/ ExecuteInvalid
  \/ ExecuteReturn
  \/ Cancel
  \/ \E n \in OpNodes : Acquire(n)
  \/ \E n \in OpNodes : FixedResult(n)
  \/ \E n \in OpNodes : ContextDone(n)
  \/ \E n \in OpNodes : CallResolver(n)
  \/ \E n \in OpNodes : ResolverReturns(n)
  \/ \E n \in OpNodes : FieldFails(n)
  \/ \E n \in OpNodes : ValueNil(n)
  \/ \E n \in OpNodes : CollectPanics(n)
  \/ \E n \in OpNodes : ObjectStarts(n)
  \/ \E n \in OpNodes : ObjectWritten(n)
  \/ \E n \in OpNodes : ListStarts(n)
  \/ \E n \in OpNodes : SpawnElement(n)
  \/ \E n \in OpNodes : FillSem(n)
  \/ \E n \in OpNodes : ListWritten(n)
  \/ \E n \in OpNodes : ScalarWritten(n)
  \/ \E n \in OpNodes : ScalarNull(n)
  \/ \E n \in OpNodes : MarshalPanics(n)
  \/ \E n \in OpNodes : EnumWritten(n)

Spec == Init /\ [][Next]_vars

\* Execute on a tree of pure resolvers: what every resolver, Index call,
\* marshalling and type-assertion method does is fixed ahead of the run, and
\* only the scheduling and the caller's cancellation are left open.
PureInit ==
  /\ op \in OpNames
  /\ serially \in SeriallyChoices(op)
  /\ asyncFields \in AsyncChoices(op)
  /\ nonNull \in NonNullChoices(op, asyncFields)
  /\ cap \in CapChoices(op, asyncFields)
  /\ tree \in PureTrees(op)
  /\ Started
  /\ NothingAside

PureSpec == PureInit /\ [][Next]_vars

\* The Go scheduler runs every goroutine that can take a step, and a resolver
\* that was called returns or panics.
\* Which positions are non-null changes what is written into the buffers, not
\* which goroutines run: the fair runs take the schema's types as nullable.
FairInit ==
  /\ op \in OpNames \ {"lists"}
  /\ serially \in SeriallyChoices(op)
  /\ asyncFields \in AsyncChoices(op)
  /\ nonNull = {}
  /\ cap \in CapChoices(op, asyncFields)
  /\ tree = AnyTree
  /\ Started
  /\ NothingAside

FairSpec == FairInit /\ [][Next]_vars /\ WF_vars(Next)

(***************************************************************************)
(* collectFieldsToResolve on its own: one call on a selection list, as       *)
(* execSelections makes it (lines 104-105).                                  *)
(***************************************************************************)
MaxSels == 3

\* The resolver of the object whose selections are collected.
RootResolver == <<"root">>

\* Selections of fields: the alias x twice with different sub-selections, the
\* alias y, and a __typename aliased t.
FieldSelections ==
  { SchemaField("x", << SchemaField("p", <<>>) >>),
    SchemaField("x", << SchemaField("q", <<>>) >>),
    SchemaField("y", <<>>),
    TypenameField("t") }

\* Type assertions: to A, which the resolver's method answers with a value and
\* true, and to B, which it answers with false; and an assertion inside one.
AssertionSelections ==
  { TypeAssertion("A", TRUE, <<f>>) : f \in FieldSelections }
    \cup { TypeAssertion("B", FALSE, <<f>>) : f \in FieldSelections }
    \cup { TypeAssertion("A", TRUE,
             << TypeAssertion("B", m, << SchemaField("x", << SchemaField("q", <<>>) >>) >>),
                SchemaField("y", <<>>) >>) : m \in BOOLEAN }

Selections == FieldSelections \cup AssertionSelections

SelectionLists == UNION { [1..k -> Selections] : k \in 0..MaxSels }

CollectInit ==
  /\ op = "object"
  /\ serially = FALSE
  /\ asyncFields = {}
  /\ nonNull = {}
  /\ cap = 0
  /\ tree = AnyTree
  /\ Started
  /\ NotRequesting
  /\ selection \in SelectionLists
  /\ collected = NotCollected

\* var fields; collectFieldsToResolve(sels, r.Schema, resolver, &fields, ...).
Collect ==
  /\ ~collected.done
  /\ collected' = [done |-> TRUE,
                   fields |-> collectFieldsToResolve(selection, RootResolver, <<>>)]
  /\ UNCHANGED <<execution, requesting, selection>>

CollectNext == Collect

CollectSpec == CollectInit /\ [][CollectNext]_vars

(***************************************************************************)
(* Schema.exec: the checks, the variables' defaults, Execute, the Response. *)
(***************************************************************************)
MaxQueryLen == 2

\* Requests that differ in what the checks look at: the query's length against
\* the schema's maxQueryLength, whether query.Parse and validation.Validate
\* accept it, the document's operations and the operation name asked for, the
\* operation's type and whether the schema has a mutation root.
CheckRequests ==
  [queryLen : 1..MaxQueryLen, maxQueryLength : 0..(MaxQueryLen - 1), parses : BOOLEAN,
   validationErrs : {<<>>, <<QueryError("rule", NoPath)>>},
   operations : {{}, {"q"}, {"q", "r"}}, operationName : {"", "q", "zz"},
   opType : {"query", "mutation", "subscription"}, mutationRoot : BOOLEAN,
   opVars : {<<>>}, resolves : {TRUE}, variables : {NilMap}]

\* What the operation declares: v and w with defaults and x without one, or v
\* with the default null and w without one.
DeclaredChoices ==
  { << VarDef("v", IntLit("1")), VarDef("w", IntLit("2")), VarDef("x", NoDefault) >>,
    << VarDef("v", NullLit), VarDef("w", NoDefault) >> }

\* What the caller supplies: no map, or v and w each left out, null or 3.
SuppliedMaps ==
  {NilMap} \cup
    { MapOf(f) : f \in UNION { [S -> {GoNil, GoInt(3)}] : S \in SUBSET {"v", "w"} } }

\* Queries that pass the checks and differ in their variables; resolves is
\* whether common.ResolveType finds every variable's type (lines 323-329).
VariableRequests ==
  [queryLen : {1}, maxQueryLength : {0}, parses : {TRUE}, validationErrs : {<<>>},
   operations : {{"q"}}, operationName : {""}, opType : {"query"}, mutationRoot : {TRUE},
   opVars : DeclaredChoices, resolves : BOOLEAN, variables : SuppliedMaps]

Requests == CheckRequests \cup VariableRequests

\* Schema.exec is entered: a mutation selects the object operation, anything
\* else the list operation, on a schema with maxParallelism 1.
ExecInit ==
  /\ request \in Requests
  /\ op = (IF request.opType = "mutation" THEN "object" ELSE "list")
  /\ serially = (request.opType = "mutation")
  /\ asyncFields = (IF request.opType = "mutation" THEN {"a"} ELSE {"e"})
  /\ nonNull = {}
  /\ cap = 1
  /\ tree = AnyTree
  /\ Standing("idle")
  /\ NotCollecting
  /\ variables = request.variables
  /\ response = NoResponse

Entered == pc[Root] = "idle" /\ ~response.returned

\* Lines 265-299: a check fails, and the Response carries its errors only.
SchemaExecRejects ==
  /\ Entered
  /\ precheck(request) # "ok"
  /\ response' = [returned |-> TRUE, hasData |-> FALSE, data |-> <<>>,
                  errors |-> rejection(request)]
  /\ UNCHANGED <<execution, collecting, request, variables>>

\* Lines 301-329: the variables are filled, and a variable's type is not found.
SchemaExecUnresolved ==
  /\ Entered
  /\ precheck(request) = "ok"
  /\ request.opVars # <<>> /\ ~request.resolves
  /\ variables' = withDefaults(request.opVars, variables)
  /\ response' = [returned |-> TRUE, hasData |-> FALSE, data |-> <<>>,
                  errors |-> <<QueryError("type", NoPath)>>]
  /\ UNCHANGED <<execution, collecting, request>>

\* Lines 301-332: the variables are filled, the Request is built with them, and
\* r.Execute is called.
SchemaExecRuns ==
  /\ Entered
  /\ precheck(request) = "ok"
  /\ request.opVars = <<>> \/ request.resolves
  /\ variables' = withDefaults(request.opVars, variables)
  /\ pc' = [pc EXCEPT ![Root] = "start"]
  /\ UNCHANGED <<config, collecting, request, response, argsSeen, cancelled, limiter, res,
                 out, listLen, sem, refill, errs, ret>>

\* Lines 332-338: Execute returned, and its data and errors make the Response.
SchemaExecReturns ==
  /\ ret.returned
  /\ ~response.returned
  /\ response' = [returned |-> TRUE, hasData |-> ~ret.nilData, data |-> ret.data,
                  errors |-> ret.errs]
  /\ UNCHANGED <<execution, collecting, request, variables>>

ExecNext ==
  \/ SchemaExecRejects
  \/ SchemaExecUnresolved
  \/ SchemaExecRuns
  \/ SchemaExecReturns
  \/ Next

ExecSpec == ExecInit /\ [][ExecNext]_vars

(***************************************************************************)
(* Properties.                                                             *)
(***************************************************************************)
Fields == {n \in OpNodes : isField(n)}
Below(n) == {m \in OpNodes : m # n /\ IsPrefix(n, m)}
Siblings(n) == ChildrenOf(Front(n)) \ {n}
\* The fields between acquiring the Limiter and releasing it.
InWindow == {n \in Fields : pc[n] \in {"acquired", "running"}}
Count(list, e) == Cardinality({i \in 1..Len(list) : list[i] = e})
Range(seq) == {seq[i] : i \in 1..Len(seq)}

\* C1: at no time are more fields inside their resolver invocation window
\* (Limiter acquired, not yet released) than the Limiter's capacity, whether
\* the fields are siblings, nested, or under list elements.
C1_ParallelismBounded == Cardinality(InWindow) <= cap

\* The cap binds: the window is full and a further field waits at the Limiter.
C1_Witness ==
  /\ cap >= 1
  /\ Cardinality(InWindow) = cap
  /\ \E n \in Fields : pc[n] = "limiter"
  /\ \E n \in InWindow : Len(n) > 1

\* C2: in a mutation, a root field is not passed to execFieldSelection before
\* every root field declared ahead of it has returned with no task of its
\* subtree still going.
C2_MutationSerial ==
  serially =>
    \A i, j \in 1..Len(FieldsOf(Root)) :
      LET fi == <<FieldsOf(Root)[i].alias>>
          fj == <<FieldsOf(Root)[j].alias>>
      IN (i < j /\ pc[fj] # "idle") =>
           /\ pc[fi] = "done"
           /\ \A m \in Below(fi) : pc[m] \in Finished \cup {"idle"}

\* The second root field of a mutation runs after the first one's fields ran
\* in goroutines of their own.
C2_Witness ==
  /\ serially
  /\ "c" \in asyncFields
  /\ pc[<<"s">>] = "running"
  /\ pc[<<"a", "c">>] = "done"
  /\ pc[<<"a", "d">>] = "done"

\* The aliases of a selection list in order, matching type assertions opened.
RECURSIVE FlatAliases(_)
FlatAliases(sels) ==
  IF sels = <<>> THEN <<>>
  ELSE LET h == Head(sels)
       IN (IF h.kind = "TypeAssertion"
           THEN (IF h.matches THEN FlatAliases(h.sels) ELSE <<>>)
           ELSE <<h.alias>>) \o FlatAliases(Tail(sels))

\* A sequence with every element kept at its first occurrence only.
RECURSIVE FirstOccurrences(_)
FirstOccurrences(seq) ==
  IF seq = <<>> THEN <<>>
  ELSE LET f == FirstOccurrences(Front(seq))
       IN IF Last(seq) \in Range(f) THEN f ELSE Append(f, Last(seq))

RECURSIVE Members(_, _, _)
Members(n, keys, i) ==
  IF i > Len(keys) THEN <<>>
  ELSE (IF i > 1 THEN <<",">> ELSE <<>>) \o <<keys[i], ":">> \o out[Append(n, keys[i])]
       \o Members(n, keys, i + 1)

RECURSIVE Entries(_, _)
Entries(n, i) ==
  IF i >= listLen[n] THEN <<>>
  ELSE (IF i > 0 THEN <<",">> ELSE <<>>) \o out[Append(n, Index(i))] \o Entries(n, i + 1)

\* The node's frame ran to its end and left an object or a list in its buffer.
Written(n) ==
  /\ pc[n] \in {"done", "returned"}
  /\ res[n] \in {"value", "none"}
  /\ out[n] \notin {Null, <<>>}

\* C3: an object that is written holds its keys in the order in which the
\* aliases first occur in its selection list, each followed by that field's
\* buffer, and a list that is written holds its entries in index order,
\* whatever order the fields and elements completed in.
C3_OutputOrder ==
  \A n \in OpNodes :
    /\ (KindOf(n) = "object" /\ Written(n)) =>
          out[n] = <<"{">> \o Members(n, FirstOccurrences(FlatAliases(SelsOf(n))), 1) \o <<"}">>
    /\ (KindOf(n) = "list" /\ Written(n)) =>
          out[n] = <<"[">> \o Entries(n, 0) \o <<"]">>

\* The field written second completed first: its error was added first.
C3_Witness ==
  /\ ret.returned
  /\ ret.data = <<"{", "a", ":", "null", ",", "s", ":", "null", "}">>
  /\ Len(errs) = 2
  /\ errs[1].path = <<"s">>
  /\ errs[2].path = <<"a">>

Above(n) == {m \in OpNodes : m # n /\ IsPrefix(m, n)}
\* The node's buffer is part of the data Execute returned: every frame above
\* it was written with an object or a list.
RECURSIVE InData(_)
InData(n) == n = Root \/ (Written(Front(n)) /\ InData(Front(n)))
\* The non-null fields that resolved to null.
NullNonNull == {f \in Fields : isNonNull(f) /\ pc[f] = "done" /\ resolvedToNull(out[f])}

\* C4: once Execute has returned data, every non-null field that resolved to
\* null either appears in the data as null with an error carrying its path,
\* or lies below a nullable ancestor (or the root) that appears in the data
\* as null.
C4_NonNullInData ==
  (ret.returned /\ ~ret.nilData /\ ret.data # <<>>) =>
    \A f \in NullNonNull :
      \/ InData(f) /\ \E i \in 1..Len(ret.errs) : ret.errs[i].path = toSlice(f)
      \/ \E a \in Above(f) :
           /\ resolvedToNull(out[a])
           /\ a = Root \/ ~isNonNull(a)
           /\ InData(a)

\* Lines 131-135 taken one frame at a time: an object written with a non-null
\* field that resolved to null is written as null.
NonNullResetsFrame ==
  \A f \in NullNonNull : pc[Front(f)] = "done" => resolvedToNull(out[Front(f)])

\* The list fields whose resolver returned a list that execList was called on.
ListNodes ==
  {n \in OpNodes : KindOf(n) = "list" /\ res[n] = "value" /\ pc[n] \in {"children"} \cup Finished}
Elems(n) == {Append(n, Index(i)) : i \in 0..(listLen[n] - 1)}
NullElems(n) == {e \in Elems(n) : pc[e] = "done" /\ resolvedToNull(out[e])}
ElemNonNull(n) == ElemPosition(Last(n)) \in nonNull

\* C5: a list of non-null element type with an element that resolved to null
\* never holds list bytes, is written as exactly null, and the object holding
\* a non-null list field is then written as null too; a list of nullable
\* element type is written with every element's buffer in place, a null
\* element included.
C5_ListNullability ==
  \A n \in ListNodes :
    IF ElemNonNull(n)
    THEN NullElems(n) # {} =>
           /\ out[n] \in {<<>>, Null}
           /\ pc[n] = "done" => resolvedToNull(out[n])
           /\ (pc[n] = "done" /\ isNonNull(n) /\ pc[Front(n)] = "done") =>
                 resolvedToNull(out[Front(n)])
    ELSE pc[n] = "done" => out[n] = <<"[">> \o Entries(n, 0) \o <<"]">>

\* A non-null list field of non-null elements: the first element was an
\* object, the second null; the list and the root object are null.
C5_Witness ==
  /\ nonNull = {"b", "b.of", "e"}
  /\ listLen[<<"b">>] = 2
  /\ out[<<"b", "0">>] = <<"{", "e", ":", "1", "}">>
  /\ out[<<"b", "1">>] = Null
  /\ out[<<"b">>] = Null
  /\ ret.returned
  /\ ret.data = Null

\* A list of nullable elements written with a null in place.
C5_WitnessNullable ==
  /\ "b.of" \notin nonNull
  /\ out[<<"b">>] = <<"[", "null", ",", "{", "e", ":", "1", "}", "]">>

\* C6: when the context is cancelled at Execute's check, Execute returns nil
\* data and exactly one error, the context's, whatever was buffered or added
\* to the request's errors.
C6_CancellationFinal ==
  (ret.returned /\ cancelled) =>
    /\ ret.nilData
    /\ ret.data = <<>>
    /\ ret.errs = <<QueryError("cancelled", NoPath)>>

\* Cancelled with an object written and errors added.
C6_Witness ==
  /\ ret.returned
  /\ cancelled
  /\ Written(Root)
  /\ \E i \in 1..Len(errs) : errs[i].kind = "resolver"

CancelledFields == {f \in Fields : res[f] = "cancelled"}

\* C7: no resolver is entered while the context is cancelled: a field that
\* reaches its check then ends with the cancellation error; such a field is
\* written as null, adds one cancellation error and none of its
\* sub-selections is executed; a resolver that is running ends with its own
\* outcome.
C7_CancellationBeforeResolver ==
  /\ [][\A n \in Nodes :
          /\ (pc[n] # "running" /\ pc'[n] = "running") => ~cancelled
          /\ (cancelled /\ pc[n] = "acquired" /\ ~isFixed(n) /\ pc'[n] # "acquired") =>
                (pc'[n] = "failed" /\ res'[n] = "cancelled")
          /\ (pc[n] = "running" /\ pc'[n] # "running") => res'[n] \in ResolverOutcomes]_vars
  /\ [](\A f \in CancelledFields :
          /\ pc[f] \in {"failed", "done"}
          /\ pc[f] = "done" => resolvedToNull(out[f])
          /\ \A m \in Below(f) : pc[m] = "idle")
  /\ [](Count(errs, QueryError("cancelled", NoPath))
          = Cardinality({f \in CancelledFields : pc[f] = "done"}))

\* A field with sub-selections was cancelled at its check while its sibling's
\* resolver, entered before, is still running.
C7_Witness ==
  /\ cancelled
  /\ pc[<<"s">>] = "running"
  /\ res[<<"a">>] = "cancelled"
  /\ pc[<<"a">>] = "done"

PanickedFields == {f \in Fields : res[f] = "panic"}
ErrorsAt(path) == {i \in 1..Len(errs) : errs[i].path = path}

\* C8: a field whose resolver panicked holds no Limiter token, is written as
\* exactly null and adds exactly one error, the panic handler's, with the
\* field's path; its siblings are still executed, and the object they belong
\* to, when it is written as an object, holds every sibling's buffer under
\* its key.
C8_ResolverPanic ==
  /\ limiter = Cardinality(InWindow)
  /\ \A f \in PanickedFields :
       /\ pc[f] \in {"failed", "done"}
       /\ pc[f] = "done" =>
            /\ resolvedToNull(out[f])
            /\ Cardinality(ErrorsAt(f)) = 1
            /\ \E i \in ErrorsAt(f) : errs[i].kind = "panic"
            /\ \A s \in NextInLoop(f) : pc[s] # "idle"
       /\ \A s \in Siblings(f) : OwnGoroutine(f) => pc[s] # "idle"
       /\ pc[Front(f)] = "done" =>
            /\ \A s \in Siblings(f) : pc[s] \in Finished /\ (pc[s] = "done" => out[s] # <<>>)
            /\ Written(Front(f)) =>
                 out[Front(f)] = <<"{">> \o Members(Front(f), FirstOccurrences(FlatAliases(SelsOf(Front(f)))), 1) \o <<"}">>

\* The first field's resolver panicked; the object holds null for it and the
\* second field's value.
C8_Witness ==
  /\ res[<<"a", "c">>] = "panic"
  /\ out[<<"a">>] = <<"{", "c", ":", "null", ",", "d", ":", "T", "}">>
  /\ errs = <<QueryError("panic", <<"a", "c">>)>>
  /\ limiter = 0

FailedFields == {f \in Fields : res[f] = "error"}

\* C9: a field whose resolver returned an error is written as exactly null,
\* adds exactly one error with its path, root first, and none of its
\* sub-selections is ever executed.
C9_ResolverError ==
  \A f \in FailedFields :
    /\ pc[f] \in {"failed", "done"}
    /\ \A m \in Below(f) : pc[m] = "idle"
    /\ pc[f] = "done" =>
         /\ resolvedToNull(out[f])
         /\ Cardinality(ErrorsAt(f)) = 1
         /\ \E i \in ErrorsAt(f) : errs[i].kind = "resolver"

\* A field with sub-selections returned an error.
C9_Witness ==
  /\ res[<<"a">>] = "error"
  /\ out[<<"a">>] = Null
  /\ ret.returned
  /\ ret.data = <<"{", "a", ":", "null", ",", "s", ":", "E", "}">>
  /\ ret.errs = <<QueryError("resolver", <<"a">>)>>

\* The errors the nodes have added so far, by what happened to each node.
Due(n) ==
  IF pc[n] \notin {"done", "panicked", "returned"} THEN {}
  ELSE CASE res[n] \in {"unmarshallable", "uncollected"} -> {QueryError("gopanic", NoPath)}
         [] res[n] = "error" -> {QueryError("resolver", n)}
         [] res[n] = "panic" -> {QueryError("panic", n)}
         [] res[n] = "cancelled" -> {QueryError("cancelled", NoPath)}
         [] res[n] = "nil" /\ isNonNull(n) -> {QueryError("nonnull", n)}
         [] res[n] = "invalid" /\ n # Root -> {QueryError("enum", n)}
         [] res[n] = "invalid" /\ n = Root -> {QueryError("validation", NoPath)}
         [] OTHER -> {}

\* C10: the request's error list only grows by appending; it holds every
\* error added exactly once, whether or not the buffers above the error were
\* replaced by null; and Execute, when the context is not cancelled, returns
\* that list.
C10_ErrorsMonotonic ==
  /\ [][IsPrefix(errs, errs')]_vars
  /\ [](\A e \in Range(errs) \cup UNION {Due(n) : n \in OpNodes} :
          Count(errs, e) = Cardinality({n \in OpNodes : e \in Due(n)}))
  /\ []((ret.returned /\ ~cancelled) => (~ret.nilData /\ ret.errs = errs))

\* Errors of fields whose objects were replaced by null up to the root.
C10_Witness ==
  /\ ret.returned
  /\ ~cancelled
  /\ ret.data = Null
  /\ Len(ret.errs) >= 2
  /\ \E i, j \in 1..Len(ret.errs) : Len(ret.errs[i].path) > 1 /\ ret.errs[j].path # ret.errs[i].path

\* The nodes whose execution has begun.
Begun == {n \in OpNodes : pc[n] # "idle"}

\* C14: the Limiter holds exactly one token per field between its acquire and
\* the end of its inner function, so a resolver runs with a token held and the
\* token is back whatever the inner function ended with (value, error, panic,
\* cancellation, fixed result); a field whose subtree has begun holds none;
\* and the Limiter is empty once Execute has returned.
C14_LimiterProtocol ==
  /\ limiter = Cardinality(InWindow)
  /\ \A n \in Fields : pc[n] = "running" => limiter >= 1
  /\ \A n \in Fields : res[n] # "none" => n \notin InWindow
  /\ \A n \in Fields : ChildrenOf(n) \cap Begun # {} => n \notin InWindow
  /\ ret.returned => limiter = 0

\* Execute has returned after a resolver panicked, a fixed result was taken and
\* a field's child failed under a token of its own.
C14_Witness ==
  /\ ret.returned
  /\ limiter = 0
  /\ \E n \in Fields : res[n] = "panic"
  /\ \E n \in Fields : isFixed(n) /\ res[n] = "value"
  /\ \E n \in Fields : res[n] = "value" /\ \E m \in ChildrenOf(n) : res[m] = "error"

\* C16 as stated: every field that passes its checks under a cancelled
\* context, a field with a FixedResult included, ends with the cancellation
\* error.
C16_CancellationFirst ==
  [][\A n \in Fields :
       (cancelled /\ pc[n] = "acquired" /\ pc'[n] # "acquired") =>
          (pc'[n] = "failed" /\ res'[n] = "cancelled")]_vars

\* C16: the inner function looks at the FixedResult first and at the context
\* second: a field with a FixedResult takes it as its value whether or not the
\* context is cancelled; any other field ends with the cancellation error when
\* the context is cancelled and calls its resolver when it is not.
C16_FixedResultFirst ==
  [][\A n \in Fields :
       (pc[n] = "acquired" /\ pc'[n] # "acquired") =>
          IF isFixed(n) THEN pc'[n] = "value" /\ res'[n] = "value"
          ELSE IF cancelled THEN pc'[n] = "failed" /\ res'[n] = "cancelled"
          ELSE pc'[n] = "running"]_vars

\* In a sequential object the field ahead of __typename stopped on the
\* cancelled context and __typename was written all the same.
C16_Witness ==
  /\ op = "object"
  /\ cancelled
  /\ ~AsyncObject(<<"a">>)
  /\ res[<<"a", "c">>] = "cancelled"
  /\ pc[<<"a", "d">>] = "done"
  /\ out[<<"a", "d">>] = Marshalled(<<"a", "d">>)

\* The object and list nodes written as null by the reset of lines 131-135 or
\* 386-390 rather than by a null of their own.
Propagated ==
  {n \in OpNodes : /\ KindOf(n) \in {"object", "list"}
                   /\ res[n] \in {"value", "none"}
                   /\ resolvedToNull(out[n])}

\* Some error of the list belongs to node c: its path leads to c or below, or
\* it is the pathless cancellation error of a field at c or below.
HasErrorFor(list, c) ==
  \E i \in 1..Len(list) :
     \/ list[i].path # NoPath /\ IsPrefix(toSlice(c), list[i].path)
     \/ /\ list[i] = QueryError("cancelled", NoPath)
        /\ \E m \in OpNodes : IsPrefix(c, m) /\ res[m] = "cancelled"

\* The non-null children whose null made n null.
NullingChildren(n) == {c \in ChildrenOf(n) : isNonNull(c) /\ resolvedToNull(out[c])}

\* C17: an object or list written as null in place of its content has a
\* non-null child that resolved to null with an error for that child in the
\* request's error list, and data handed back with such a null comes with a
\* non-empty error list.
C17_PropagatedNullHasError ==
  /\ \A n \in Propagated : \E c \in NullingChildren(n) : HasErrorFor(errs, c)
  /\ (ret.returned /\ ~ret.nilData /\ Propagated # {}) => ret.errs # <<>>

\* Every null that climbs has its error as long as no scalar marshals to null.
PropagatedNullHasErrorUnlessJsonNull ==
  (\A m \in OpNodes : res[m] # "jsonnull") => C17_PropagatedNullHasError

\* The nodes at which a panic was raised outside a resolver call: in a
\* type-assertion method during collection, or in json.Marshal's failure.
PanickedNodes == {n \in OpNodes : res[n] \in {"uncollected", "unmarshallable"}}
\* The element goroutines of list n that have not ended.
RunningElems(n) == {e \in ChildrenOf(n) : pc[e] \notin Finished \cup {"idle"}}

\* C20: every panic is recovered and recorded: one error per panic that
\* handlePanic recovered, an error with the field's path per panicking
\* resolver; the goroutine a panic ended has signalled its end (its frames
\* are over and its list's sem holds no token for it); and once a panic was
\* raised Execute returns.
C20_NoPanicEscapes ==
  /\ [](Count(errs, QueryError("gopanic", NoPath)) = Cardinality(PanickedNodes))
  /\ [](\A f \in PanickedFields :
          pc[f] = "done" => QueryError("panic", toSlice(f)) \in Range(errs))
  /\ [](\A n \in PanickedNodes :
          /\ pc[n] \in {"panicked", "returned"}
          /\ pc[GoroutineOf(n)] \in Finished \cup {"returned"}
          /\ \A m \in Unwound(n) : pc[m] \in Finished \cup {"returned"})
  /\ [](\A n \in OpNodes :
          (KindOf(n) = "list" /\ AsyncList(n) /\ pc[n] = "children") =>
             sem[n] = Cardinality(RunningElems(n)) + refill[n])
  /\ ((PanickedNodes # {} \/ PanickedFields # {}) ~> ret.returned)

\* Execute has returned after an element goroutine panicked collecting its
\* fields while the other element's field panicked in json.Marshal and in
\* its resolver.
C20_Witness ==
  /\ op = "list"
  /\ ret.returned
  /\ AsyncList(<<"b">>)
  /\ \E e \in ChildrenOf(<<"b">>) : res[e] = "uncollected"
  /\ \E n \in Fields : res[n] \in {"unmarshallable", "panic"}

\* The fields whose resolver has been called.
Called == {n \in Fields : argsSeen[n].called}
\* The nearest field above n that takes arguments, if one does.
RECURSIVE ArgsAncestors(_)
ArgsAncestors(n) ==
  IF n = Root \/ Front(n) = Root THEN {}
  ELSE LET p == Front(n)
       IN IF isField(p) /\ FieldArgs(Last(p)) # {} THEN {p} ELSE ArgsAncestors(p)

\* C13: the context handed to the resolver call of a field with arguments
\* carries that field's arguments map, and the resolver call of a descendant
\* that takes no arguments of its own finds the map of the nearest field
\* above it that does.
C13_ArgsBeforeResolver ==
  \A n \in Called :
    IF FieldArgs(Last(n)) # {}
    THEN argsSeen[n].args = FieldArgs(Last(n))
    ELSE \A p \in ArgsAncestors(n) : argsSeen[n].args = FieldArgs(Last(p))

\* The arguments of a field reach the resolver calls below it and no other:
\* every resolver finds the map of the nearest field above it that takes
\* arguments, its own arguments set aside, and none where there is no such field.
ArgsReachDescendantsOnly ==
  \A n \in Called :
    /\ \A p \in ArgsAncestors(n) : argsSeen[n].args = FieldArgs(Last(p))
    /\ ArgsAncestors(n) = {} => argsSeen[n].args = NoArgs

(***************************************************************************)
(* The data of a tree of pure resolvers, computed without any scheduling.  *)
(***************************************************************************)
\* What a frame left by a panic hands its caller.
Panicked == <<"panic!">>
\* A goroutine's handlePanic ends the panic and leaves the buffer as it was.
Absorbed(b) == IF b = Panicked THEN <<>> ELSE b

\* The items of a sequence of buffers, separated by commas.
RECURSIVE Joined(_, _)
Joined(items, i) ==
  IF i > Len(items) THEN <<>>
  ELSE (IF i > 1 THEN <<",">> ELSE <<>>) \o items[i] \o Joined(items, i + 1)

\* The buffer node n ends with when its tree is run with goroutines where
\* the Async marks ask for them (conc) or with every field and element run
\* in turn by its parent's frame (~conc).
RECURSIVE DataOf(_, _)
DataOf(n, conc) ==
  LET d == tree.does[n]
      kids ==
        IF KindOf(n) = "object"
        THEN [i \in 1..Len(FieldsOf(n)) |-> Append(n, FieldsOf(n)[i].alias)]
        ELSE [i \in 1..tree.len[n] |-> Append(n, Index(i - 1))]
      apart == conc /\ (IF KindOf(n) = "object" THEN AsyncObject(n) ELSE AsyncList(n))
      outs == [i \in 1..Len(kids) |-> DataOf(kids[i], conc)]
      bufs == [i \in 1..Len(kids) |-> Absorbed(outs[i])]
      opened ==
        IF KindOf(n) = "object"
        THEN <<"{">> \o Joined([i \in 1..Len(kids) |-> <<Last(kids[i]), ":">> \o bufs[i]], 1)
                    \o <<"}">>
        ELSE <<"[">> \o Joined(bufs, 1) \o <<"]">>
  IN IF n # Root /\ isFixed(n) THEN Marshalled(n)
     ELSE IF n = Root /\ d = "invalid" THEN Null
     ELSE IF n # Root /\ d \in {"nil", "error", "panic"} THEN Null
     ELSE CASE KindOf(n) = "scalar" ->
                 (CASE d = "jsonnull" -> Null
                    [] d = "unmarshallable" -> Panicked
                    [] OTHER -> Marshalled(n))
            [] KindOf(n) = "enum" -> (IF d = "invalid" THEN Null ELSE <<"E">>)
            [] OTHER ->
                 IF KindOf(n) = "object" /\ d = "uncollected" THEN Panicked
                 ELSE IF ~apart /\ \E i \in 1..Len(kids) : outs[i] = Panicked THEN Panicked
                 ELSE IF \E i \in 1..Len(kids) : isNonNull(kids[i]) /\ resolvedToNull(bufs[i])
                      THEN Null
                      ELSE opened

\* Execute of a pure tree has handed back data.
PureData == tree.pure /\ ret.returned /\ ~ret.nilData

\* C11: the data Execute returns for a tree of pure resolvers is the data of
\* the run in which every field and element is executed in turn, whatever
\* the Async marks and however the goroutines were scheduled.
C11_DataDeterministic == PureData => ret.data = Absorbed(DataOf(Root, FALSE))

\* Every scheduling of the goroutines of a pure tree ends with the same data.
InterleavingsAgree == PureData => ret.data = Absorbed(DataOf(Root, TRUE))

\* The data is that of the run in turn unless a panic was raised outside a
\* resolver call.
SequentialDataUnlessPanic ==
  (PureData /\ \A n \in OpNodes : tree.does[n] \notin {"unmarshallable", "uncollected"})
     => ret.data = Absorbed(DataOf(Root, FALSE))

\* The list-element goroutines that have been spawned and have not ended.
ElementTasks ==
  {n \in OpNodes : isElem(n) /\ AsyncList(Front(n)) /\ pc[n] \notin Finished \cup {"idle"}}

\* C15 as stated: over the whole request no more element goroutines are
\* running than the Limiter's capacity.
C15_RequestWideElementCap == Cardinality(ElementTasks) <= cap

\* C15: each list execution gates its element goroutines with a channel of
\* its own, of the Limiter's capacity: of one list no more element goroutines
\* are running than that capacity, and its channel never holds more tokens.
C15_PerListElementCap ==
  \A n \in OpNodes :
    (KindOf(n) = "list" /\ AsyncList(n)) =>
       /\ Cardinality(RunningElems(n)) <= cap
       /\ sem[n] <= cap

\* With capacity 1 an element goroutine of each of two sibling lists runs,
\* and the first list's second element waits for the list's own channel.
C15_Witness ==
  /\ op = "lists"
  /\ cap = 1
  /\ Cardinality(ElementTasks) = 2
  /\ pc[<<"b">>] = "children" /\ sem[<<"b">>] = cap /\ Unspawned(<<"b">>) # {}

(***************************************************************************)
(* C18.                                                                    *)
(***************************************************************************)
\* The field occurrences of a selection list in document order, each with the
\* resolver it is met with: those under a type assertion that matches are met
\* with the asserted value, those under one that does not match are left out.
RECURSIVE Occurrences(_, _)
Occurrences(ss, resolver) ==
  IF ss = <<>> THEN <<>>
  ELSE LET sel == Head(ss)
       IN (CASE sel.kind = "TypeAssertion" ->
                  IF sel.matches THEN Occurrences(sel.sels, Asserted(resolver, sel.typ))
                  ELSE <<>>
             [] OTHER -> << [alias |-> sel.alias, sels |-> sel.sels, resolver |-> resolver] >>)
          \o Occurrences(Tail(ss), resolver)

FirstOccurrence(occ, alias) ==
  CHOOSE i \in DOMAIN occ :
    /\ occ[i].alias = alias
    /\ \A j \in 1..(i - 1) : occ[j].alias # alias

\* The sub-selections of the occurrences of alias, one after the other.
RECURSIVE SelsOfAlias(_, _)
SelsOfAlias(occ, alias) ==
  IF occ = <<>> THEN <<>>
  ELSE (IF Head(occ).alias = alias THEN Head(occ).sels ELSE <<>>)
         \o SelsOfAlias(Tail(occ), alias)

\* C18: collectFieldsToResolve yields exactly one fieldToExec per distinct
\* alias, in the order of the aliases' first occurrences, bound to the resolver
\* of the first occurrence, with the sub-selections of all occurrences
\* (those reached through matching type assertions included) concatenated in
\* order; selections under a non-matching type assertion contribute nothing.
C18_CollectMergesByAlias ==
  collected.done =>
    LET occ == Occurrences(selection, RootResolver)
        fs == collected.fields
    IN /\ \A i, j \in DOMAIN fs : fs[i].alias = fs[j].alias => i = j
       /\ {fs[i].alias : i \in DOMAIN fs} = {occ[k].alias : k \in DOMAIN occ}
       /\ \A i, j \in DOMAIN fs :
            i < j => FirstOccurrence(occ, fs[i].alias) < FirstOccurrence(occ, fs[j].alias)
       /\ \A i \in DOMAIN fs :
            /\ fs[i].resolver = occ[FirstOccurrence(occ, fs[i].alias)].resolver
            /\ fs[i].sels = SelsOfAlias(occ, fs[i].alias)

\* x is selected under a non-matching assertion, then directly, then under a
\* matching one: one fieldToExec for x, bound to the object's resolver, with
\* the sub-selections of the second and third occurrence.
C18_Witness ==
  /\ collected.done
  /\ selection = << TypeAssertion("B", FALSE, << SchemaField("x", << SchemaField("q", <<>>) >>) >>),
                    SchemaField("x", << SchemaField("p", <<>>) >>),
                    TypeAssertion("A", TRUE, << SchemaField("x", << SchemaField("q", <<>>) >>) >>) >>
  /\ Len(collected.fields) = 1
  /\ collected.fields[1].resolver = RootResolver
  /\ collected.fields[1].sels = << SchemaField("p", <<>>), SchemaField("q", <<>>) >>

(***************************************************************************)
(* C12.                                                                    *)
(***************************************************************************)
\* The request is one Schema.exec rejects before execution: its query is longer
\* than a MaxQueryLength that is set, or does not parse, or fails validation,
\* or has no selectable operation, or selects a subscription, or selects a
\* mutation on a schema without a mutation root type.
TooLong == request.maxQueryLength > 0 /\ request.queryLen > request.maxQueryLength
NoSelectableOperation ==
  \/ request.operations = {}
  \/ request.operationName = "" /\ Cardinality(request.operations) > 1
  \/ request.operationName # "" /\ request.operationName \notin request.operations
RejectedBeforeExecution ==
  /\ request # NoRequest
  /\ \/ TooLong
     \/ ~request.parses
     \/ request.validationErrs # <<>>
     \/ NoSelectableOperation
     \/ request.opType = "subscription"
     \/ request.opType = "mutation" /\ ~request.mutationRoot

\* C12: for a request Schema.exec rejects (query too long, parse failure,
\* validation failure, no selectable operation, subscription, mutation without
\* a mutation root) no execution request is ever run and no resolver is ever
\* invoked, and the response has no data and a non-empty error list.
C12_PreExecutionFailuresTerminal ==
  RejectedBeforeExecution =>
    /\ pc[Root] = "idle"
    /\ ~ret.returned
    /\ \A n \in Nodes : ~argsSeen[n].called /\ pc[n] = "idle" /\ out[n] = <<>>
    /\ response.returned =>
         /\ ~response.hasData
         /\ response.data = <<>>
         /\ response.errors # <<>>

\* A subscription that parses, validates and names its operation was answered
\* with the one error and no data.
C12_Witness ==
  /\ request.opType = "subscription"
  /\ ~TooLong /\ request.parses /\ request.validationErrs = <<>> /\ ~NoSelectableOperation
  /\ response.returned
  /\ response.errors = <<QueryError("subscription", NoPath)>>
  /\ pc[Root] = "idle"

\* Every rejected request is answered.
C12_RejectedIsAnswered == (RejectedBeforeExecution /\ ~response.returned) => ENABLED SchemaExecRejects

(***************************************************************************)
(* C19.                                                                    *)
(***************************************************************************)
\* Schema.exec went past its loop over op.Vars.
Defaulted == pc[Root] # "idle" \/ (response.returned /\ ~RejectedBeforeExecution)
Declared == {request.opVars[i] : i \in DOMAIN request.opVars}

\* C19: after the defaulting in Schema.exec, a declared variable the caller
\* omitted and that has a default holds the default, a variable the caller
\* supplied (a null included) holds the supplied value, and an omitted
\* variable without a default is absent.
C19_VariableDefaulting ==
  (request # NoRequest /\ Defaulted) =>
    /\ \A d \in Declared :
         /\ (~Has(request.variables, d.name) /\ d.default # NoDefault) =>
              (Has(variables, d.name) /\ variables.at[d.name] = Deserialize(d.default))
         /\ (~Has(request.variables, d.name) /\ d.default = NoDefault) =>
              ~Has(variables, d.name)
    /\ \A k \in DOMAIN request.variables.at :
         Has(variables, k) /\ variables.at[k] = request.variables.at[k]

\* v, w and x are declared, v and w with defaults; the caller supplied w as
\* null and nothing else: Execute runs with v = 1, w = null and no x.
C19_Witness ==
  /\ pc[Root] \notin {"idle", "start"}
  /\ request.opVars = << VarDef("v", IntLit("1")), VarDef("w", IntLit("2")), VarDef("x", NoDefault) >>
  /\ request.variables = MapOf([k \in {"w"} |-> GoNil])
  /\ DOMAIN variables.at = {"v", "w"}
  /\ variables.at["v"] = GoInt(1)
  /\ variables.at["w"] = GoNil

(***************************************************************************)
(* C21.                                                                    *)
(***************************************************************************)
\* The task computing node n is under way: called and not yet over.
Running(n) == pc[n] \notin Finished \cup {"idle", "returned"}
\* The fields of object n and the elements of list n that its code runs.
TasksOf(n) ==
  IF KindOf(n) = "list" THEN {Append(n, Index(i)) : i \in 0..(listLen[n] - 1)}
  ELSE ChildrenOf(n)
\* The step in which n writes its object or list from its children's buffers.
Assembles(n) == pc[n] = "children" /\ pc'[n] = "done"

\* C21: a buffer changes only in a step of the task of its own node, while
\* that task is under way, and never once the task is over; and in the step
\* in which a parent assembles its object or list from its children's
\* buffers, every field and every element it ran is over.
C21_BuffersRaceFree ==
  [][\A n \in OpNodes :
       /\ out'[n] # out[n] => (Running(n) /\ pc'[n] # pc[n])
       /\ Assembles(n) =>
            \A c \in TasksOf(n) : pc[c] \in Finished /\ out'[c] = out[c]]_vars

\* The list b has been written from the buffers of two elements that ran in
\* goroutines of their own, with a Limiter of capacity 2.
C21_Witness ==
  /\ op = "list"
  /\ AsyncList(<<"b">>)
  /\ cap = 2
  /\ listLen[<<"b">>] = 2
  /\ pc[<<"b">>] = "done"
  /\ \A e \in TasksOf(<<"b">>) : out[e] # <<>>
  /\ Len(out[<<"b">>]) > 2

\* When Execute returns its buffer no task is under way.
NoTaskOutlivesExecute == ret.returned => \A n \in OpNodes : ~Running(n) \/ n = Root

(***************************************************************************)
(* C22.                                                                    *)
(***************************************************************************)
\* The task of node n is over, or was never called.
Over(n) == pc[n] \in Finished \cup {"idle", "returned"}

\* C22: with a Limiter of capacity 1 or more, under every interleaving the
\* scheduler can produce with resolvers that return or panic, Execute
\* returns, with every task that was called (blocked on the Limiter, on a
\* list's sem or on its fields and elements) having come to its end.
C22_DeadlockFree ==
  (cap >= 1) ~> (ret.returned /\ \A n \in OpNodes : Over(n))

\* Execute has returned with a Limiter of capacity 1 after a list of two
\* elements ran each element in a goroutine: the second element had to wait
\* for the first one's token of sem, and the closing loop took the one token.
C22_Witness ==
  /\ cap = 1
  /\ op = "list"
  /\ AsyncList(<<"b">>)
  /\ listLen[<<"b">>] = 2
  /\ refill[<<"b">>] = 1
  /\ \A e \in TasksOf(<<"b">>) : pc[e] \in Finished
  /\ ret.returned

\* With a Limiter of capacity 1 or more some step other than the caller's
\* cancellation can be taken until Execute has returned.
NoDeadlockState == (cap >= 1 /\ ~ret.returned) => ENABLED (Next /\ cancelled' = cancelled)

(***************************************************************************)
(* C23.                                                                    *)
(***************************************************************************)
\* C23: with MaxParallelism(0), a Limiter of capacity 0, a request that
\* selects at least one field completes: Execute returns.
C23_ZeroParallelismCompletes ==
  (cap = 0 /\ ChildrenOf(Root) # {}) ~> ret.returned

\* With a Limiter of capacity 0 no field gets past its send on the Limiter:
\* no resolver is called and no field ends.
ZeroParallelismBlocks ==
  cap = 0 => \A n \in Fields : pc[n] \in {"idle", "limiter"} /\ ~argsSeen[n].called

\* With a Limiter of capacity 0, once the root's fields are set going nothing
\* but the caller's cancellation can happen, and Execute does not return.
ZeroParallelismStuck ==
  (cap = 0 /\ pc[Root] = "children") =>
     (~ret.returned /\ ~ENABLED (Next /\ cancelled' = cancelled))

(***************************************************************************)
(* C24.                                                                    *)
(***************************************************************************)
\* The tokens of a scalar, and those that give a value its structure.
ScalarTokens == {"null", "1", "T", "E"}
StructureTokens == {"{", "}", "[", "]", ",", ":"}
IsKey(t) == t \notin ScalarTokens \cup StructureTokens

\* Where the JSON value that begins at b[i] ends (the index after it), or 0 if
\* no complete value begins there; likewise for the members of an object
\* after its opening brace and the entries of a list after its bracket.
RECURSIVE ValueEnd(_, _), MembersEnd(_, _), EntriesEnd(_, _)
ValueEnd(b, i) ==
  IF i > Len(b) THEN 0
  ELSE IF b[i] \in ScalarTokens THEN i + 1
  ELSE IF b[i] = "{"
       THEN IF i + 1 <= Len(b) /\ b[i + 1] = "}" THEN i + 2 ELSE MembersEnd(b, i + 1)
  ELSE IF b[i] = "["
       THEN IF i + 1 <= Len(b) /\ b[i + 1] = "]" THEN i + 2 ELSE EntriesEnd(b, i + 1)
  ELSE 0
MembersEnd(b, i) ==
  IF i + 1 > Len(b) THEN 0
  ELSE IF ~IsKey(b[i]) \/ b[i + 1] # ":" THEN 0
  ELSE LET j == ValueEnd(b, i + 2)
       IN IF j = 0 \/ j > Len(b) THEN 0
          ELSE IF b[j] = "}" THEN j + 1
          ELSE IF b[j] = "," THEN MembersEnd(b, j + 1)
          ELSE 0
EntriesEnd(b, i) ==
  LET j == ValueEnd(b, i)
  IN IF j = 0 \/ j > Len(b) THEN 0
     ELSE IF b[j] = "]" THEN j + 1
     ELSE IF b[j] = "," THEN EntriesEnd(b, j + 1)
     ELSE 0

\* The buffer holds one complete value: null, a scalar, an object or a list.
IsValue(b) == ValueEnd(b, 1) = Len(b) + 1

\* The objects and lists that were assembled from their children's buffers.
Assembled ==
  {n \in OpNodes : /\ pc[n] \in {"done", "returned"}
                   /\ KindOf(n) \in {"object", "list"}
                   /\ res[n] \in {"value", "none"}
                   /\ out[n] # <<>>}

\* C24: when an object or list has been assembled, the buffer of every field
\* or element it ran holds one complete value, and the data Execute hands
\* back is one complete value, never a fragment.
C24_BuffersHoldOneValue ==
  /\ \A n \in Assembled : \A c \in TasksOf(n) : IsValue(out[c])
  /\ (ret.returned /\ ~ret.nilData /\ ret.data # <<>>) => IsValue(ret.data)

\* A panic was raised outside a resolver call: by json.Marshal's failure or by
\* a type-assertion method during the collection of fields.
PanicOutsideResolver == \E n \in OpNodes : res[n] \in {"unmarshallable", "uncollected"}

\* Without such a panic every buffer a parent assembles holds one value.
OneValueUnlessPanicOutsideResolver == ~PanicOutsideResolver => C24_BuffersHoldOneValue

\* With every field and element run in its parent's frame the data is one
\* value or nothing at all.
OneValueWithoutGoroutines ==
  (\A n \in OpNodes : GoroutineOf(n) = Root) =>
     ((ret.returned /\ ~ret.nilData /\ ret.data # <<>>) => IsValue(ret.data))

\* Execute has handed back a fragment after json.Marshal failed in a field or
\* element and no type-assertion method panicked: a state Spec reaches.
FragmentAfterMarshalPanic ==
  /\ ret.returned /\ ~ret.nilData
  /\ ret.data # <<>> /\ ~IsValue(ret.data)
  /\ \E n \in OpNodes : res[n] = "unmarshallable"
  /\ \A n \in OpNodes : res[n] # "uncollected"

====
